---- MODULE Spec2Model ----
(***************************************************************************)
(* The hand-rolled tool-calling agent loop of                              *)
(* src/anthropic/scratch_agent/main.py: the tool registry, the Agent's     *)
(* conversation history, Agent.send_message and run_agent_loop.            *)
(*                                                                         *)
(* Representation.                                                         *)
(*  - A Python str is a sequence of tokens (a token is a TLA+ string), so  *)
(*    that "\n".join and f-strings are concatenations that can be told     *)
(*    apart from their parts.  Str(t) is the one-token string.             *)
(*  - A Python dict is a function from its keys.                           *)
(*  - The "content" of a history entry is either a str, [str |-> s], or a  *)
(*    list of blocks, [blocks |-> <<...>>].                                *)
(*  - An optional value (None or a value v) is <<>> or <<v>>.              *)
(*  - The model (client.messages.create) is an external collaborator: it   *)
(*    returns any sequence of text and tool_use blocks, or raises.  The    *)
(*    ids it puts on tool_use blocks are fresh (nextId), as the provider   *)
(*    guarantees.                                                          *)
(***************************************************************************)
EXTENDS Integers, Sequences, FiniteSets, TLC

VARIABLES
    pc,                   \* position of the program (see PcValues)
    tool_schemas,         \* Agent.tool_schemas
    tool_map,             \* Agent.tool_map
    conversation_history, \* Agent.conversation_history
    max_iterations,       \* run_agent_loop's parameter
    iteration,            \* run_agent_loop's local
    current_message,      \* run_agent_loop's local
    response,             \* run_agent_loop's local: <<>> or <<content>>
    tool_uses,            \* run_agent_loop's local
    tool_results,         \* create_tool_result_content's local
    result,               \* the caller's variable "response = run_agent_loop(...)":
                          \* <<>> or <<value returned by the last run that returned>>
    exception,            \* exception that left the current call: <<>> or <<name>>
    modelCalls,           \* history variable: client.messages.create calls of this run
    execLog,              \* history variable: tool requests handled in this batch
    nextId,               \* next fresh tool_use id of the provider
    sends,                \* history variable: send_message calls of this Agent
    model,                \* Agent.model: <<>> before construction, then <<name>>
    system_prompt,        \* Agent.system_prompt: <<>> before construction, then <<str>>
    api_messages,         \* api_params["messages"] of the last send_message
    appendLog,            \* history variable: every entry ever appended to the
                          \* history of this Agent, in order
    run,                  \* history variable: facts about the current run (see NoRun)
    weather,              \* the WeatherTool.execute calls of SpecWeather
    chat,                 \* the interactive loop of googleadk_tests/debug_context.py
    workflow,             \* googleadk_tests/workflow/workflow_by_turn.py
    gemini,               \* googleadk_tests/gemini_basic_agent.py
    shopping,             \* agno_tests/workflow/shared_state_workflow.py
    assistant,            \* googleadk_tests/assistant_agent/agent.py
    chunker               \* agno_tests/context/ctx_engine/context_enginer_1.py

\* the variables of the agent loop
agentVars == <<pc, tool_schemas, tool_map, conversation_history, max_iterations,
               iteration, current_message, response, tool_uses, tool_results,
               result, exception, modelCalls, execLog, nextId, sends, model,
               system_prompt, api_messages, appendLog, run>>

\* the variables of the other programs
auxVars == <<weather, chat, workflow, gemini, shopping, assistant, chunker>>

\* what a step of one of the other programs leaves alone
notWeather == <<agentVars, chat, workflow, gemini, shopping, assistant, chunker>>
notChat == <<agentVars, weather, workflow, gemini, shopping, assistant, chunker>>
notWorkflow == <<agentVars, weather, chat, gemini, shopping, assistant, chunker>>
notGemini == <<agentVars, weather, chat, workflow, shopping, assistant, chunker>>
notShopping == <<agentVars, weather, chat, workflow, gemini, assistant, chunker>>
notAssistant == <<agentVars, weather, chat, workflow, gemini, shopping, chunker>>
notChunker == <<agentVars, weather, chat, workflow, gemini, shopping, assistant>>

vars == <<agentVars, auxVars>>

-----------------------------------------------------------------------------
(* Bounds of the model *)

\* send_message calls over the lifetime of one Agent
MaxCalls == 3
\* content blocks the model returns over the lifetime of one Agent
MaxBlocks == 3
\* largest max_iterations a caller passes
MaxIter == 2
\* lines the user enters in one session of the interactive loop
MaxLines == 3
\* executions of the workflow_by_turn script against one database
MaxExecs == 5
\* largest max_turns given to the Gemini run_agent
MaxTurns == 2
\* parts of one Gemini response
MaxParts == 2
\* add_item calls on one session state
MaxAdds == 3
\* update_user_interaction calls on one user's state
MaxInteractions == 10
\* longest text given to chunk_text
MaxText == 5
\* largest chunk_size given to chunk_text
MaxChunk == 3

-----------------------------------------------------------------------------
(* Strings *)

Str(t) == <<t>>

None == <<>>
Some(v) == <<v>>

\* "\n".join(parts)
RECURSIVE JoinNewline(_)
JoinNewline(parts) ==
    IF parts = <<>> THEN <<>>
    ELSE IF Len(parts) = 1 THEN parts[1]
    ELSE parts[1] \o Str("\n") \o JoinNewline(Tail(parts))

\* str.lower() on one character
LowerChar(c) ==
    CASE c = "A" -> "a" [] c = "B" -> "b" [] c = "C" -> "c" [] c = "D" -> "d"
      [] c = "E" -> "e" [] c = "F" -> "f" [] c = "G" -> "g" [] c = "H" -> "h"
      [] c = "I" -> "i" [] c = "J" -> "j" [] c = "K" -> "k" [] c = "L" -> "l"
      [] c = "M" -> "m" [] c = "N" -> "n" [] c = "O" -> "o" [] c = "P" -> "p"
      [] c = "Q" -> "q" [] c = "R" -> "r" [] c = "S" -> "s" [] c = "T" -> "t"
      [] c = "U" -> "u" [] c = "V" -> "v" [] c = "W" -> "w" [] c = "X" -> "x"
      [] c = "Y" -> "y" [] c = "Z" -> "z"
      [] OTHER -> c

\* a lookup that leaves the city as the caller wrote it
Lower_AsWritten(s) == s

Lower(s) == [i \in 1..Len(s) |-> LowerChar(s[i])]

-----------------------------------------------------------------------------
(* Tools *)

\* The tool objects a caller can build from the classes of the file: two
\* WeatherTool instances and one instance of the abstract BaseTool.
WeatherTool(n) == [cls |-> "WeatherTool", obj |-> n]
BaseTool == [cls |-> "BaseTool", obj |-> 0]

\* The tools arguments given to Agent(...): none, one tool, the same class
\* twice (two tools that declare one name), and lists holding a BaseTool.
ToolLists ==
    { <<>>,
      <<WeatherTool(1)>>,
      <<WeatherTool(1), WeatherTool(2)>>,
      <<BaseTool>>,
      <<WeatherTool(1), BaseTool>> }

\* tool.get_name(): <<name>>, or <<>> when it raises NotImplementedError
get_name(tool) ==
    IF tool.cls = "WeatherTool" THEN Some("get_weather") ELSE None

\* the city of main's first query
Tokyo == <<"T", "o", "k", "y", "o">>

weather_database ==
    [k \in { <<"n", "e", "w", " ", "y", "o", "r", "k">>,
             <<"l", "o", "n", "d", "o", "n">>,
             <<"t", "o", "k", "y", "o">>,
             <<"p", "a", "r", "i", "s">> } |->
        CASE k = <<"n", "e", "w", " ", "y", "o", "r", "k">> ->
                 [temp |-> 22, condition |-> Str("Partly cloudy"), humidity |-> 65]
          [] k = <<"l", "o", "n", "d", "o", "n">> ->
                 [temp |-> 15, condition |-> Str("Rainy"), humidity |-> 80]
          [] k = <<"t", "o", "k", "y", "o">> ->
                 [temp |-> 28, condition |-> Str("Sunny"), humidity |-> 55]
          [] OTHER ->
                 [temp |-> 18, condition |-> Str("Overcast"), humidity |-> 70]]

\* An outcome of a call: a returned value or a raised exception
Returned(v) == [raised |-> FALSE, value |-> v]
Raised(e, msg) == [raised |-> TRUE, msg |-> msg, exc |-> e]

\* round(temp, 1) in tenths of a degree; temp * 9/5 + 32 is temp * 18 + 320 tenths
Temperature10(temp, unit) ==
    IF unit = Str("fahrenheit") THEN temp * 18 + 320 ELSE temp * 10

\* WeatherTool.execute(**tool_input)
WeatherExecute(tool_input) ==
    IF ~(DOMAIN tool_input \subseteq {"city", "unit"})
    THEN Raised("TypeError", Str("execute() got an unexpected keyword argument"))
    ELSE IF "city" \notin DOMAIN tool_input
    THEN Raised("TypeError", Str("execute() missing 1 required positional argument: 'city'"))
    ELSE LET city == tool_input["city"]
             unit == IF "unit" \in DOMAIN tool_input
                     THEN tool_input["unit"] ELSE Str("celsius")
             city_key == Lower(city)
         IN  IF city_key \notin DOMAIN weather_database
             THEN Returned([error |-> Str("Weather data not available for ") \o city,
                            available_cities |-> DOMAIN weather_database])
             ELSE LET data == weather_database[city_key]
                  IN  Returned([condition |-> data.condition,
                                humidity |-> data.humidity,
                                unit |-> unit,
                                city |-> city,
                                temperature |-> Temperature10(data.temp, unit)])

\* tool.execute(**tool_input)
Execute(tool, tool_input) ==
    IF tool.cls = "WeatherTool" THEN WeatherExecute(tool_input)
    ELSE Raised("NotImplementedError", <<>>)

\* create_tool_schema(tool); called only on tools whose get_name returns
create_tool_schema(tool) ==
    [cls |-> tool.cls, name |-> get_name(tool)[1]]

\* register_tools(tools): the pair it returns, or the exception that leaves it
register_tools(tools) ==
    IF \E i \in 1..Len(tools) : get_name(tools[i]) = None
    THEN Raised("NotImplementedError", <<>>)
    ELSE LET names == { get_name(tools[i])[1] : i \in 1..Len(tools) }
             \* a dict comprehension keeps the last value given for a key
             last(n) == CHOOSE i \in 1..Len(tools) :
                            /\ get_name(tools[i])[1] = n
                            /\ \A j \in 1..Len(tools) :
                                   get_name(tools[j])[1] = n => j <= i
         IN  Returned([tool_schemas |-> [i \in 1..Len(tools) |-> create_tool_schema(tools[i])],
                       tool_map |-> [n \in names |-> tools[last(n)]]])

\* execute_tool_safely without its try/except
execute_tool_unguarded(tool, tool_name, tool_input) ==
    LET out == Execute(tool, tool_input)
    IN  IF out.raised THEN out ELSE Returned(out.value)

\* execute_tool_safely(tool, tool_name, tool_input)
execute_tool_safely(tool, tool_name, tool_input) ==
    LET out == Execute(tool, tool_input)
    IN  IF out.raised
        THEN Returned([error |-> Str("Tool execution failed: ") \o out.msg])
        ELSE Returned(out.value)

\* json.dumps(result): the text is represented by the tagged dict it encodes
json_dumps(d) == <<"json", d>>

-----------------------------------------------------------------------------
(* Messages and content blocks *)

StrContent(s) == [str |-> s]
ListContent(blocks) == [blocks |-> blocks]
IsList(content) == "blocks" \in DOMAIN content

\* a message that is given the user role whatever the caller passed
Message_AlwaysUser(role, content) == [content |-> content, role |-> "user"]

Message(role, content) == [content |-> content, role |-> role]

TextBlock(t) == [type |-> "text", text |-> t]
ToolUseBlock(id, name, input) ==
    [name |-> name, type |-> "tool_use", id |-> id, input |-> input]
ToolResultBlock(id, content) ==
    [content |-> content, type |-> "tool_result", tool_use_id |-> id]

\* The value run_agent_loop returns when the while loop runs out
Sentinel == Str("Maximum iterations reached without completion.")

\* The query a caller starts a run with (main's first)
InitialMessages == { Str("What's the weather like in Tokyo?") }

\* What one block of a model response can be: a text (one of two texts, the
\* second being the very words of the sentinel), or a request for the
\* registered tool with arguments it accepts, for the registered tool with
\* arguments it raises on, or for a tool that is not registered.
TextKinds == {"text", "text_sentinel"}
UseKinds == {"use_ok", "use_raise", "use_unknown"}

BlockOf(kind, id) ==
    CASE kind = "text" -> TextBlock(Str("It is sunny."))
      [] kind = "text_sentinel" -> TextBlock(Sentinel)
      [] kind = "use_ok" -> ToolUseBlock(id, "get_weather", [city |-> Tokyo])
      [] kind = "use_raise" -> ToolUseBlock(id, "get_weather", <<>>)
      [] OTHER -> ToolUseBlock(id, "get_time", <<>>)

\* number of tool_use kinds among the first n kinds of ks
RECURSIVE UsesBefore(_, _)
UsesBefore(ks, n) ==
    IF n = 0 THEN 0
    ELSE UsesBefore(ks, n - 1) + (IF ks[n] \in UseKinds THEN 1 ELSE 0)

\* response.content for the kinds ks, its tool_use ids fresh from first on
ContentOf(ks, first) ==
    [i \in 1..Len(ks) |-> BlockOf(ks[i], first + UsesBefore(ks, i - 1))]

\* blocks the model has returned so far
RECURSIVE ModelBlocks(_)
ModelBlocks(h) ==
    IF h = <<>> THEN 0
    ELSE (IF h[1].role = "assistant" THEN Len(h[1].content.blocks) ELSE 0)
         + ModelBlocks(Tail(h))

\* The responses the model can give: tool_use blocks only when the request
\* carried tools (api_params["tools"] is set only for a non-empty schema list).
Responses(schemas, left) ==
    UNION { [1..n -> IF schemas = <<>> THEN TextKinds ELSE TextKinds \cup UseKinds]
            : n \in 0..left }

\* get_text_response(response)
RECURSIVE TextParts(_)
TextParts(content) ==
    IF content = <<>> THEN <<>>
    ELSE (IF content[1].type = "text" THEN <<content[1].text>> ELSE <<>>)
         \o TextParts(Tail(content))

\* get_text_response that returns at the first text block
get_text_response_first(content) ==
    IF TextParts(content) = <<>> THEN <<>> ELSE TextParts(content)[1]

get_text_response(content) == JoinNewline(TextParts(content))

\* extract_tool_uses(response)
RECURSIVE extract_tool_uses(_)
extract_tool_uses(content) ==
    IF content = <<>> THEN <<>>
    ELSE (IF content[1].type = "tool_use"
          THEN << [name |-> content[1].name, id |-> content[1].id,
                   input |-> content[1].input] >>
          ELSE <<>>)
         \o extract_tool_uses(Tail(content))

\* One pass of the for loop of create_tool_result_content: the tool_result
\* appended for tool_use, or the exception that leaves the function.
ToolResultFor(tool_use, map) ==
    IF tool_use.name \notin DOMAIN map
    THEN Raised("KeyError", Str(tool_use.name))
    ELSE LET out == execute_tool_safely(map[tool_use.name], tool_use.name, tool_use.input)
         IN  IF out.raised THEN out
             ELSE Returned(ToolResultBlock(tool_use.id, json_dumps(out.value)))

\* an append that keeps a window of the history, dropping its oldest entry
HistoryAppend_Window(history, message) ==
    IF Len(history) >= 2 THEN Append(Tail(history), message)
    ELSE Append(history, message)

\* conversation_history.append(message)
HistoryAppend(history, message) == Append(history, message)

\* a while test that lets one more iteration through
WhileTest_OffByOne(it, max) == it <= max

\* "while iteration < max_iterations"
WhileTest(it, max) == it < max

-----------------------------------------------------------------------------
(* The program *)

\* run: the length of the history and the number of send_message calls when
\* the run began, its initial_message, the tool executions and the
\* tool-result batches it has completed, and the inputs of the executions
NoRun == [start |-> 0, sends0 |-> 0, initial |-> <<>>, execs |-> 0, batches |-> 0,
          executed |-> <<>>]

\* the other programs, not started
NoWeather == [pc |-> "off"]
NoChat == [pc |-> "off"]
NoWorkflow == [pc |-> "off"]
NoGemini == [pc |-> "off"]
NoShopping == [pc |-> "off"]
NoAssistant == [pc |-> "off"]
NoChunker == [pc |-> "off"]

\* every other program but the named one is not started
OthersOff(program) ==
    /\ IF program = "weather" THEN TRUE ELSE weather = NoWeather
    /\ IF program = "chat" THEN TRUE ELSE chat = NoChat
    /\ IF program = "workflow" THEN TRUE ELSE workflow = NoWorkflow
    /\ IF program = "gemini" THEN TRUE ELSE gemini = NoGemini
    /\ IF program = "shopping" THEN TRUE ELSE shopping = NoShopping
    /\ IF program = "assistant" THEN TRUE ELSE assistant = NoAssistant
    /\ IF program = "chunker" THEN TRUE ELSE chunker = NoChunker

\* a request that carries only the two most recent entries
ApiMessages_Recent(history) ==
    IF Len(history) > 2 THEN SubSeq(history, Len(history) - 1, Len(history))
    ELSE history

\* api_params["messages"] = self.conversation_history
ApiMessages(history) == history

PcValues ==
    { "new",          \* before Agent(...)
      "init_raised",  \* Agent.__init__ left by an exception
      "idle",         \* Agent constructed, no run yet
      "loop",         \* run_agent_loop at the while test
      "call",         \* send_message at client.messages.create
      "answer",       \* run_agent_loop at "if not tool_uses", none found
      "tools",        \* create_tool_result_content inside its for loop
      "returned",     \* run_agent_loop returned result
      "raised" }      \* run_agent_loop left by exception

\* no Agent has been constructed
NoAgent ==
    /\ pc = "new"
    /\ tool_schemas = <<>>
    /\ tool_map = <<>>
    /\ conversation_history = <<>>
    /\ max_iterations = 0
    /\ iteration = 0
    /\ current_message = StrContent(<<>>)
    /\ response = None
    /\ tool_uses = <<>>
    /\ tool_results = <<>>
    /\ result = None
    /\ exception = None
    /\ modelCalls = 0
    /\ execLog = <<>>
    /\ nextId = 1
    /\ sends = 0
    /\ model = None
    /\ system_prompt = None
    /\ api_messages = <<>>
    /\ appendLog = <<>>
    /\ run = NoRun

Init ==
    /\ NoAgent
    /\ OthersOff("agent")

\* Agent._get_default_system_prompt()
DefaultSystemPrompt == Str("You are a helpful AI assistant that solves problems systematically.")

\* the system prompt create_weather_agent passes
WeatherSystemPrompt == Str("You are a helpful weather assistant.")

\* The system_prompt argument that goes with a tools argument:
\* create_weather_agent passes its own prompt with its one tool, the other
\* constructions leave the parameter at None.
SystemPromptArg(tools) ==
    IF tools = <<WeatherTool(1)>> THEN Some(WeatherSystemPrompt) ELSE None

\* Agent.__init__(tools, system_prompt=SystemPromptArg(tools))
AgentInit(tools) ==
    /\ pc = "new"
    /\ model' = Some("claude-sonnet-4-20250514")
    /\ system_prompt' = IF SystemPromptArg(tools) = None
                        THEN Some(DefaultSystemPrompt)
                        ELSE SystemPromptArg(tools)
    /\ LET out == IF tools = <<>>
                  THEN Returned([tool_schemas |-> <<>>, tool_map |-> <<>>])
                  ELSE register_tools(tools)
       IN  IF out.raised
           THEN /\ pc' = "init_raised"
                /\ exception' = Some(out.exc)
                /\ UNCHANGED <<tool_schemas, tool_map>>
           ELSE /\ pc' = "idle"
                /\ tool_schemas' = out.value.tool_schemas
                /\ tool_map' = out.value.tool_map
                /\ UNCHANGED exception
    /\ conversation_history' = <<>>
    /\ UNCHANGED <<max_iterations, iteration, current_message, response, tool_uses,
                   tool_results, result, modelCalls, execLog, nextId, sends,
                   api_messages, appendLog, run>>
    /\ UNCHANGED auxVars

\* a counter that goes on from where the Agent's previous run left it
InitialIteration_Kept == iteration

\* run_agent_loop: "iteration = 0"
InitialIteration == 0

\* run_agent_loop(agent, initial_message, max_iterations) up to the while test
RunAgentLoop(initial_message, n) ==
    /\ pc \in {"idle", "returned", "raised"}
    /\ sends + n <= MaxCalls
    /\ pc' = "loop"
    /\ max_iterations' = n
    /\ iteration' = InitialIteration
    /\ current_message' = StrContent(initial_message)
    /\ response' = None
    /\ tool_uses' = <<>>
    /\ tool_results' = <<>>
    /\ exception' = None
    /\ modelCalls' = 0
    /\ execLog' = <<>>
    /\ run' = [start |-> Len(conversation_history), sends0 |-> sends,
               initial |-> initial_message, execs |-> 0, batches |-> 0,
               executed |-> <<>>]
    /\ UNCHANGED <<tool_schemas, tool_map, conversation_history, result, nextId, sends,
                   model, system_prompt, api_messages, appendLog>>
    /\ UNCHANGED auxVars

\* The while test holds: iteration += 1, then send_message up to the API call
SendMessage ==
    /\ pc = "loop"
    /\ WhileTest(iteration, max_iterations)
    /\ iteration' = iteration + 1
    /\ conversation_history' =
           HistoryAppend(conversation_history, Message("user", current_message))
    /\ api_messages' = ApiMessages(conversation_history')
    /\ appendLog' = Append(appendLog, Message("user", current_message))
    /\ sends' = sends + 1
    /\ pc' = "call"
    /\ UNCHANGED <<tool_schemas, tool_map, max_iterations, current_message, response,
                   tool_uses, tool_results, result, exception, modelCalls, execLog,
                   nextId, model, system_prompt, run>>
    /\ UNCHANGED auxVars

\* The while test fails: the return after the loop
ReturnSentinel ==
    /\ pc = "loop"
    /\ ~WhileTest(iteration, max_iterations)
    /\ result' = Some(Sentinel)
    /\ pc' = "returned"
    /\ UNCHANGED <<tool_schemas, tool_map, conversation_history, max_iterations,
                   iteration, current_message, response, tool_uses, tool_results,
                   exception, modelCalls, execLog, nextId, sends, model,
                   system_prompt, api_messages, appendLog, run>>
    /\ UNCHANGED auxVars

\* client.messages.create returns; send_message appends the response and
\* returns it; run_agent_loop extracts the tool uses and tests them
ModelResponds(ks) ==
    /\ pc = "call"
    /\ LET content == ContentOf(ks, nextId)
           uses == extract_tool_uses(content)
       IN  /\ response' = Some(content)
           /\ conversation_history' =
                  HistoryAppend(conversation_history,
                                Message("assistant", ListContent(content)))
           /\ tool_uses' = uses
           /\ nextId' = nextId + Len(uses)
           /\ pc' = IF uses = <<>> THEN "answer" ELSE "tools"
    /\ modelCalls' = modelCalls + 1
    /\ tool_results' = <<>>
    /\ execLog' = <<>>
    /\ appendLog' = Append(appendLog,
                           Message("assistant", ListContent(ContentOf(ks, nextId))))
    /\ UNCHANGED <<tool_schemas, tool_map, max_iterations, iteration, current_message,
                   result, exception, sends, model, system_prompt, api_messages, run>>
    /\ UNCHANGED auxVars

\* a model-call failure that is swallowed: the loop goes on to its next pass
ModelCallFails_Continue ==
    /\ pc = "call"
    /\ modelCalls' = modelCalls + 1
    /\ pc' = "loop"
    /\ UNCHANGED <<tool_schemas, tool_map, conversation_history, max_iterations,
                   iteration, current_message, response, tool_uses, tool_results,
                   result, exception, execLog, nextId, sends, model, system_prompt,
                   api_messages, appendLog, run>>
    /\ UNCHANGED auxVars

\* client.messages.create raises (network, auth, rate limit): nothing in
\* send_message or run_agent_loop catches it
ModelCallFails ==
    /\ pc = "call"
    /\ modelCalls' = modelCalls + 1
    /\ exception' = Some("APIError")
    /\ pc' = "raised"
    /\ UNCHANGED <<tool_schemas, tool_map, conversation_history, max_iterations,
                   iteration, current_message, response, tool_uses, tool_results,
                   result, execLog, nextId, sends, model, system_prompt,
                   api_messages, appendLog, run>>
    /\ UNCHANGED auxVars

\* "if not tool_uses": return get_text_response(response)
ReturnAnswer ==
    /\ pc = "answer"
    /\ result' = Some(get_text_response(response[1]))
    /\ pc' = "returned"
    /\ UNCHANGED <<tool_schemas, tool_map, conversation_history, max_iterations,
                   iteration, current_message, response, tool_uses, tool_results,
                   exception, modelCalls, execLog, nextId, sends, model,
                   system_prompt, api_messages, appendLog, run>>
    /\ UNCHANGED auxVars

\* a result put at the front of the batch
AddResult_AtFront(results, block) == <<block>> \o results

\* tool_results.append({...})
AddResult(results, block) == Append(results, block)

\* a for loop that never moves to its next tool_use
ExecTool_NoAdvance ==
    /\ pc = "tools"
    /\ Len(tool_results) < Len(tool_uses)
    /\ UNCHANGED vars

\* One pass of the for loop of create_tool_result_content; after the last
\* pass the function returns and run_agent_loop sets current_message
ExecTool ==
    /\ pc = "tools"
    /\ Len(tool_results) < Len(tool_uses)
    /\ LET tool_use == tool_uses[Len(tool_results) + 1]
           out == ToolResultFor(tool_use, tool_map)
       IN  IF out.raised
           THEN /\ exception' = Some(out.exc)
                /\ pc' = "raised"
                /\ UNCHANGED <<tool_results, execLog, current_message, run>>
           ELSE /\ tool_results' = AddResult(tool_results, out.value)
                /\ execLog' = Append(execLog,
                       [raised |-> Execute(tool_map[tool_use.name], tool_use.input).raised,
                        id |-> tool_use.id])
                /\ IF Len(tool_results) + 1 = Len(tool_uses)
                   THEN /\ current_message' = ListContent(tool_results')
                        /\ run' = [run EXCEPT !.execs = @ + 1, !.batches = @ + 1,
                                              !.executed = Append(@, tool_use.input)]
                        /\ pc' = "loop"
                   ELSE /\ UNCHANGED current_message
                        /\ run' = [run EXCEPT !.execs = @ + 1,
                                              !.executed = Append(@, tool_use.input)]
                        /\ pc' = "tools"
                /\ UNCHANGED exception
    /\ UNCHANGED <<tool_schemas, tool_map, conversation_history, max_iterations,
                   iteration, response, tool_uses, result, modelCalls, nextId, sends,
                   model, system_prompt, api_messages, appendLog>>
    /\ UNCHANGED auxVars

Next ==
    \/ \E tools \in ToolLists : AgentInit(tools)
    \/ \E m \in InitialMessages, n \in 0..MaxIter : RunAgentLoop(m, n)
    \/ SendMessage
    \/ ReturnSentinel
    \/ \E ks \in Responses(tool_schemas, MaxBlocks - ModelBlocks(conversation_history)) :
           ModelResponds(ks)
    \/ ModelCallFails
    \/ ReturnAnswer
    \/ ExecTool

Spec == Init /\ [][Next]_vars

\* The steps run_agent_loop takes by itself once it has been called. The code
\* is one sequential thread, so a run that can take its next step takes it;
\* every model call returns or raises and every tool call returns or raises.
RunStep ==
    \/ SendMessage
    \/ ReturnSentinel
    \/ \E ks \in Responses(tool_schemas, MaxBlocks - ModelBlocks(conversation_history)) :
           ModelResponds(ks)
    \/ ModelCallFails
    \/ ReturnAnswer
    \/ ExecTool

\* Spec with the progress of the running thread; the caller need not call again
SpecLive == Spec /\ WF_vars(RunStep)

-----------------------------------------------------------------------------
(* WeatherTool.execute called with a string city, and the loop pass around it *)

\* the city arguments: spellings of the four cities of the backing data in
\* several cases, and strings that are none of them
WeatherCities ==
    { Tokyo,
      <<"t", "o", "k", "y", "o">>,
      <<"T", "O", "K", "Y", "O">>,
      <<"t", "O", "k", "Y", "o">>,
      <<"P", "a", "r", "i", "s">>,
      <<"L", "O", "N", "D", "O", "N">>,
      <<"N", "e", "w", " ", "Y", "o", "r", "k">>,
      <<"n", "e", "w", " ", "y", "o", "r", "k">>,
      <<"B", "e", "r", "l", "i", "n">>,
      <<"b", "e", "r", "l", "i", "n">>,
      <<"N", "e", "w", "Y", "o", "r", "k">>,
      <<"T", "o", "k", "y", "o", " ">>,
      <<"T", "o", "k", "i", "o">>,
      <<>> }

\* the unit arguments: <<>> stands for the argument left out
WeatherUnits == { None, Some(Str("celsius")), Some(Str("fahrenheit")), Some(Str("kelvin")) }

\* the tool_input dict of a call
WeatherInput(city, unit) ==
    IF unit = None THEN [city |-> city] ELSE [unit |-> unit[1], city |-> city]

InitWeather ==
    /\ NoAgent
    /\ OthersOff("weather")
    /\ \E city \in WeatherCities, unit \in WeatherUnits :
           weather = [pc |-> "request", tool_input |-> WeatherInput(city, unit)]

\* tool.execute(**tool_input) on a WeatherTool
WeatherCall ==
    /\ weather.pc = "request"
    /\ weather' = [pc |-> "executed", tool_input |-> weather.tool_input,
                   outcome |-> Execute(WeatherTool(1), weather.tool_input)]
    /\ UNCHANGED notWeather

\* create_tool_result_content on the tool_use that carries the input, with the
\* tool_map of an Agent built with one WeatherTool
WeatherResult ==
    /\ weather.pc = "executed"
    /\ LET tool_use == ToolUseBlock(1, "get_weather", weather.tool_input)
           map == register_tools(<<WeatherTool(1)>>).value.tool_map
           out == ToolResultFor(tool_use, map)
       IN  weather' = [pc |-> IF out.raised THEN "raised" ELSE "built",
                       tool_input |-> weather.tool_input,
                       outcome |-> weather.outcome,
                       batch |-> out]
    /\ UNCHANGED notWeather

\* run_agent_loop: current_message = tool_results, back to the while test
WeatherLoop ==
    /\ weather.pc = "built"
    /\ weather' = [pc |-> "loop",
                   current_message |-> ListContent(<<weather.batch.value>>),
                   tool_input |-> weather.tool_input,
                   outcome |-> weather.outcome,
                   batch |-> weather.batch]
    /\ UNCHANGED notWeather

NextWeather ==
    \/ WeatherCall
    \/ WeatherResult
    \/ WeatherLoop

SpecWeather == InitWeather /\ [][NextWeather]_vars

-----------------------------------------------------------------------------
(* The interactive loop of main in googleadk_tests/debug_context.py *)

\* str.strip(): leading and trailing whitespace removed
IsSpace(c) == c \in {" ", "\t"}

RECURSIVE LStrip(_)
LStrip(s) ==
    IF s # <<>> /\ IsSpace(s[1]) THEN LStrip(Tail(s)) ELSE s

RECURSIVE RStrip(_)
RStrip(s) ==
    IF s # <<>> /\ IsSpace(s[Len(s)]) THEN RStrip(SubSeq(s, 1, Len(s) - 1)) ELSE s

Strip(s) == RStrip(LStrip(s))

\* the lines a user enters at the prompt
ChatLines ==
    { <<"e", "x", "i", "t">>,
      <<"/", "e", "x", "i", "t">>,
      <<" ", "e", "x", "i", "t", " ">>,
      <<"q", "u", "i", "t">>,
      <<"h", "i">>,
      <<" ", " ">>,
      <<>> }

\* main has built the runner and printed its banner; the loop is at its prompt
InitChat ==
    /\ NoAgent
    /\ OthersOff("chat")
    /\ chat = [pc |-> "prompt", line |-> <<>>, user_input |-> <<>>,
               turns |-> <<>>, lines |-> 0, errors |-> 0]

\* user_input = console.input(...).strip() and the if / elif / call that follow;
\* turns records the arguments of the execute_turn calls
ChatRead(line) ==
    /\ chat.pc = "prompt"
    /\ chat.lines < MaxLines
    /\ LET user_input == Strip(line)
       IN  chat' = [chat EXCEPT
                       !.line = line,
                       !.user_input = user_input,
                       !.lines = @ + 1,
                       !.pc = IF user_input = <<"e", "x", "i", "t">> THEN "done"
                              ELSE IF user_input = <<>> THEN "prompt"
                              ELSE "turn",
                       !.turns = IF user_input = <<"e", "x", "i", "t">> \/ user_input = <<>>
                                 THEN @ ELSE Append(@, user_input)]
    /\ UNCHANGED notChat

\* console.input raises an Exception (EOFError at the end of the input):
\* "except Exception" prints it and the loop goes on
ChatInputFails ==
    /\ chat.pc = "prompt"
    /\ chat.lines < MaxLines
    /\ chat' = [chat EXCEPT !.lines = @ + 1, !.errors = @ + 1]
    /\ UNCHANGED notChat

\* execute_turn returns
ChatTurnReturns ==
    /\ chat.pc = "turn"
    /\ chat' = [chat EXCEPT !.pc = "prompt"]
    /\ UNCHANGED notChat

\* execute_turn raises an Exception: printed, and the loop goes on
ChatTurnFails ==
    /\ chat.pc = "turn"
    /\ chat' = [chat EXCEPT !.pc = "prompt", !.errors = @ + 1]
    /\ UNCHANGED notChat

\* KeyboardInterrupt at the prompt or during a turn: break
ChatInterrupt ==
    /\ chat.pc \in {"prompt", "turn"}
    /\ chat' = [chat EXCEPT !.pc = "done"]
    /\ UNCHANGED notChat

NextChat ==
    \/ \E line \in ChatLines : ChatRead(line)
    \/ ChatInputFails
    \/ ChatTurnReturns
    \/ ChatTurnFails
    \/ ChatInterrupt

SpecChat == InitChat /\ [][NextChat]_vars

-----------------------------------------------------------------------------
(* googleadk_tests/workflow/workflow_by_turn.py *)

\* agent1, agent2, agent3: name and output_key
WorkflowAgent(name) ==
    [name |-> name,
     output_key |-> CASE name = "agent1" -> "note_1"
                      [] name = "agent2" -> "note_2"
                      [] OTHER -> "final_answer"]

\* session state: a dict from keys to texts
EmptyState == <<>>

\* state[key] = text
StatePut(state, key, text) ==
    [k \in DOMAIN state \cup {key} |-> IF k = key THEN text ELSE state[k]]

\* determine_next_agent that looks at the notes before the final answer
determine_next_agent_NotesFirst(current_session) ==
    LET state == IF current_session = None THEN EmptyState ELSE current_session[1].state
    IN  IF "note_2" \in DOMAIN state THEN [agent |-> Some("agent3"), status |-> "agent3"]
        ELSE IF "note_1" \in DOMAIN state THEN [agent |-> Some("agent2"), status |-> "agent2"]
        ELSE IF "final_answer" \in DOMAIN state THEN [agent |-> None, status |-> "complete"]
        ELSE [agent |-> Some("agent1"), status |-> "agent1"]

\* determine_next_agent, from the session that get_session returned
\* (<<>> for None, <<session>> otherwise)
determine_next_agent(current_session) ==
    LET state == IF current_session = None THEN EmptyState ELSE current_session[1].state
    IN  IF "final_answer" \in DOMAIN state THEN [agent |-> None, status |-> "complete"]
        ELSE IF "note_2" \in DOMAIN state THEN [agent |-> Some("agent3"), status |-> "agent3"]
        ELSE IF "note_1" \in DOMAIN state THEN [agent |-> Some("agent2"), status |-> "agent2"]
        ELSE [agent |-> Some("agent1"), status |-> "agent1"]

\* the texts a state key can hold
StateTexts == { "", "text" }

\* the keys a session state can hold: the three output keys and another one
StateKeys == { "note_1", "note_2", "final_answer", "other" }

\* the values get_session can return: None, or a session with some state
DetermineInputs ==
    { None } \cup
    { Some([id |-> 1, state |-> st]) :
        st \in UNION { [ks -> StateTexts] : ks \in SUBSET StateKeys } }

InitDetermine ==
    /\ NoAgent
    /\ OthersOff("workflow")
    /\ \E current_session \in DetermineInputs :
           workflow = [pc |-> "determine", current_session |-> current_session]

\* determine_next_agent is applied to the session
DetermineApply ==
    /\ workflow.pc = "determine"
    /\ workflow' = [pc |-> "determined",
                    current_session |-> workflow.current_session,
                    next |-> determine_next_agent(workflow.current_session)]
    /\ UNCHANGED notWorkflow

NextDetermine == DetermineApply

SpecDetermine == InitDetermine /\ [][NextDetermine]_vars

\* The database file is there and no script execution is running. sessions is
\* the table of the sessions of (APP_NAME, USER_ID); ran and returns record
\* the agents run and the values run_turn returned, over all executions;
\* wrote records whether every agent run so far wrote its output_key.
InitWorkflow ==
    /\ NoAgent
    /\ OthersOff("workflow")
    /\ workflow = [pc |-> "shell", execs |-> 0, sessions |-> <<>>, session_id |-> 0,
                   ran |-> <<>>, returns |-> <<>>, wrote |-> TRUE, created |-> 0]

\* the script is started: main up to get_or_create_session
WorkflowStart ==
    /\ workflow.pc = "shell"
    /\ workflow.execs < MaxExecs
    /\ workflow' = [workflow EXCEPT !.pc = "main", !.execs = @ + 1]
    /\ UNCHANGED notWorkflow

\* a get_or_create_session that never looks for an existing session
get_or_create_session_AlwaysNew ==
    /\ workflow.pc = "main"
    /\ workflow' = [workflow EXCEPT
                       !.pc = "turn",
                       !.sessions = Append(@, [id |-> Len(@) + 1, state |-> EmptyState]),
                       !.session_id = Len(workflow.sessions) + 1,
                       !.created = @ + 1]
    /\ UNCHANGED notWorkflow

\* get_or_create_session(session_service, USER_ID)
get_or_create_session ==
    /\ workflow.pc = "main"
    /\ IF Len(workflow.sessions) > 0
       THEN workflow' = [workflow EXCEPT !.pc = "turn",
                                         !.session_id = workflow.sessions[1].id]
       ELSE workflow' = [workflow EXCEPT
                            !.pc = "turn",
                            !.sessions = Append(@, [id |-> Len(@) + 1, state |-> EmptyState]),
                            !.session_id = Len(workflow.sessions) + 1,
                            !.created = @ + 1]
    /\ UNCHANGED notWorkflow

\* session_service.get_session(session_id): <<session>>, or <<>> for None
get_session(sessions, session_id) ==
    IF \E i \in 1..Len(sessions) : sessions[i].id = session_id
    THEN Some(sessions[CHOOSE i \in 1..Len(sessions) : sessions[i].id = session_id])
    ELSE None

\* run_turn when determine_next_agent reports "complete": return True
RunTurnAlreadyComplete ==
    /\ workflow.pc = "turn"
    /\ determine_next_agent(get_session(workflow.sessions, workflow.session_id)).status
           = "complete"
    /\ workflow' = [workflow EXCEPT !.pc = "shell", !.returns = Append(@, TRUE)]
    /\ UNCHANGED notWorkflow

\* a run_turn that reports completion from the second agent on
TurnResult_FromSecond(agent_status) == agent_status \in {"agent2", "agent3"}

\* the value run_turn returns after the run of the agent with agent_status
TurnResult(agent_status) == agent_status = "agent3"

\* run_turn with an agent to run. outcome is what runner.run_async does:
\* "writes" (a final response whose text the runner stores under the agent's
\* output_key), "silent" (no final response, nothing stored), or "raises".
RunTurn(outcome, text) ==
    /\ workflow.pc = "turn"
    /\ LET next == determine_next_agent(get_session(workflow.sessions, workflow.session_id))
           i == CHOOSE i \in 1..Len(workflow.sessions) :
                    workflow.sessions[i].id = workflow.session_id
       IN  /\ next.status # "complete"
           /\ workflow' =
                  [workflow EXCEPT
                      !.pc = "shell",
                      !.ran = Append(@, next.status),
                      !.wrote = @ /\ outcome = "writes",
                      !.sessions[i].state =
                          IF outcome = "writes"
                          THEN StatePut(@, WorkflowAgent(next.agent[1]).output_key, text)
                          ELSE @,
                      !.returns = IF outcome = "raises" THEN @
                                  ELSE Append(@, TurnResult(next.status))]
    /\ UNCHANGED notWorkflow

NextWorkflow ==
    \/ WorkflowStart
    \/ get_or_create_session
    \/ RunTurnAlreadyComplete
    \/ \E text \in StateTexts : RunTurn("writes", text)
    \/ RunTurn("silent", "")
    \/ RunTurn("raises", "")

SpecWorkflow == InitWorkflow /\ [][NextWorkflow]_vars

-----------------------------------------------------------------------------
(* googleadk_tests/gemini_basic_agent.py *)

\* types.Content(role, parts)
Content(role, parts) == [parts |-> parts, role |-> role]

\* types.Part(text=...), a part with a function_call, types.Part(function_response=...)
TextPart(t) == [text |-> t, kind |-> "text"]
FunctionCallPart(name, args) == [name |-> name, kind |-> "function_call", args |-> args]
FunctionResponsePart(name, resp) ==
    [response |-> resp, name |-> name, kind |-> "function_response"]

\* eval(expression) on the expressions of the model
Eval(expression) ==
    IF expression = Str("2+2") THEN Returned(4)
    ELSE Raised("SyntaxError", Str("invalid syntax"))

\* tool.execute(**tool_input) on the CalculatorTool
CalculatorExecute(tool_input) ==
    IF DOMAIN tool_input # {"expression"}
    THEN Raised("TypeError", Str("execute() missing 1 required positional argument: 'expression'"))
    ELSE LET out == Eval(tool_input["expression"])
         IN  IF out.raised
             THEN Returned([error |-> Str("Invalid mathematical expression: ") \o out.msg])
             ELSE Returned([result |-> out.value])

\* agent.tool_map of Agent(tools=[calculator_tool])
GeminiToolNames == { "calculator" }

\* tool = agent.tool_map[tool_name]; tool_result = tool.execute(**tool_input)
GeminiToolCall(part) ==
    IF part.name \notin GeminiToolNames THEN Raised("KeyError", Str(part.name))
    ELSE CalculatorExecute(part.args)

\* The for loop over the parts of a response: the function_response parts
\* built and the calls executed, up to the first call that raises.
RECURSIVE ProcessParts(_, _, _)
ProcessParts(parts, responses, executed) ==
    IF parts = <<>> THEN [raised |-> FALSE, executed |-> executed, responses |-> responses]
    ELSE IF parts[1].kind # "function_call"
    THEN ProcessParts(Tail(parts), responses, executed)
    ELSE LET out == GeminiToolCall(parts[1])
         IN  IF out.raised
             THEN [raised |-> TRUE, exc |-> out.exc,
                   executed |-> IF out.exc = "KeyError" THEN executed
                                ELSE Append(executed, parts[1].args),
                   responses |-> responses]
             ELSE ProcessParts(Tail(parts),
                               Append(responses, FunctionResponsePart(parts[1].name, out.value)),
                               Append(executed, parts[1].args))

\* a Python value run_agent returns: a str, or None
PyStr(s) == [str |-> s]
PyNone == [none |-> TRUE]

\* the texts of the text parts, concatenated
RECURSIVE ConcatTexts(_)
ConcatTexts(parts) ==
    IF parts = <<>> THEN <<>>
    ELSE (IF parts[1].kind = "text" THEN parts[1].text ELSE <<>>) \o ConcatTexts(Tail(parts))

\* response.text: the text parts concatenated, None when there is none
GeminiText(parts) ==
    IF \E k \in 1..Len(parts) : parts[k].kind = "text"
    THEN PyStr(ConcatTexts(parts))
    ELSE PyNone

\* the kinds of part a response can hold, and the part of each kind
GeminiPartKinds == { "text", "call_ok", "call_bad_expr", "call_no_args", "call_unknown" }

GeminiPartOf(kind) ==
    CASE kind = "text" -> TextPart(Str("4"))
      [] kind = "call_ok" -> FunctionCallPart("calculator", [expression |-> Str("2+2")])
      [] kind = "call_bad_expr" -> FunctionCallPart("calculator", [expression |-> Str("2+")])
      [] kind = "call_no_args" -> FunctionCallPart("calculator", <<>>)
      [] OTHER -> FunctionCallPart("search", <<>>)

\* the kinds of the parts of a candidate that generate_content returns
GeminiKindSeqs == UNION { [1..n -> GeminiPartKinds] : n \in 0..MaxParts }

GeminiPartsOf(kinds) == [i \in 1..Len(kinds) |-> GeminiPartOf(kinds[i])]

\* the message chat puts into contents and history: a str becomes a user Content
GeminiMessage(message) ==
    IF "str" \in DOMAIN message
    THEN Content("user", <<TextPart(message.str)>>)
    ELSE message.content

\* a chat that records the message before the model call is made
HistoryAfterFailedCall_Recorded(history, message) ==
    Append(history, GeminiMessage(message))

\* self.history when generate_content raised: chat has not touched it
HistoryAfterFailedCall(history, message) == history

\* run_agent(user_input, max_turns) up to the while test: a new Agent with
\* the CalculatorTool and an empty history
GeminiRunAgent(user_input, max_turns) ==
    [pc |-> "loop", result |-> None, exception |-> None,
     i |-> 0, history |-> <<>>, executed |-> <<>>,
     user_input |-> [str |-> user_input], max_turns |-> max_turns, contents |-> <<>>,
     chat_outcome |-> "none", calls |-> 0]

GeminiQuestions == { Str("What is 2+2?") }

InitGemini ==
    /\ NoAgent
    /\ OthersOff("gemini")
    /\ \E q \in GeminiQuestions, n \in 0..MaxTurns : gemini = GeminiRunAgent(q, n)

\* "while i < max_turns: i += 1" and chat up to the model call
GeminiSend ==
    /\ gemini.pc = "loop"
    /\ gemini.i < gemini.max_turns
    /\ gemini' = [gemini EXCEPT
                     !.pc = "call",
                     !.i = @ + 1,
                     !.contents = Append(gemini.history, GeminiMessage(gemini.user_input))]
    /\ UNCHANGED notGemini

\* the while test fails: return "Max iterations reached"
GeminiReturnMax ==
    /\ gemini.pc = "loop"
    /\ gemini.i >= gemini.max_turns
    /\ gemini' = [gemini EXCEPT !.pc = "returned",
                                 !.result = Some(PyStr(Str("Max iterations reached")))]
    /\ UNCHANGED notGemini

\* generate_content raises: chat and run_agent are left by the exception
GeminiCallFails ==
    /\ gemini.pc = "call"
    /\ gemini' = [gemini EXCEPT
                     !.pc = "raised",
                     !.calls = @ + 1,
                     !.chat_outcome = "model_raised",
                     !.history = HistoryAfterFailedCall(@, gemini.user_input),
                     !.exception = Some("APIError")]
    /\ UNCHANGED notGemini

\* generate_content returns a response without candidates: chat appends the
\* message and then raises at response.candidates[0]
GeminiNoCandidates ==
    /\ gemini.pc = "call"
    /\ gemini' = [gemini EXCEPT
                     !.pc = "raised",
                     !.calls = @ + 1,
                     !.chat_outcome = "chat_raised",
                     !.history = Append(@, GeminiMessage(gemini.user_input)),
                     !.exception = Some("IndexError")]
    /\ UNCHANGED notGemini

\* generate_content returns a candidate with parts: chat updates the history
\* and returns, and run_agent handles the response
GeminiResponds(parts) ==
    /\ gemini.pc = "call"
    /\ LET history == gemini.history \o <<GeminiMessage(gemini.user_input),
                                           Content("model", parts)>>
           has_function_calls == \E k \in 1..Len(parts) : parts[k].kind = "function_call"
           done == ProcessParts(parts, <<>>, <<>>)
       IN  gemini' =
              [gemini EXCEPT
                  !.calls = @ + 1,
                  !.chat_outcome = "returned",
                  !.history = history,
                  !.executed = IF parts # <<>> /\ has_function_calls
                               THEN @ \o done.executed ELSE @,
                  !.pc = IF parts = <<>> \/ ~has_function_calls THEN "returned"
                         ELSE IF done.raised THEN "raised" ELSE "loop",
                  !.exception = IF parts # <<>> /\ has_function_calls /\ done.raised
                                THEN Some(done.exc) ELSE @,
                  !.user_input = IF parts # <<>> /\ has_function_calls /\ ~done.raised
                                 THEN [content |-> Content("user", done.responses)]
                                 ELSE @,
                  !.result = IF parts = <<>> THEN Some(PyStr(Str("No response generated")))
                             ELSE IF ~has_function_calls THEN Some(GeminiText(parts))
                             ELSE @]
    /\ UNCHANGED notGemini

NextGemini ==
    \/ GeminiSend
    \/ GeminiReturnMax
    \/ GeminiCallFails
    \/ GeminiNoCandidates
    \/ \E kinds \in GeminiKindSeqs : GeminiResponds(GeminiPartsOf(kinds))

SpecGemini == InitGemini /\ [][NextGemini]_vars

-----------------------------------------------------------------------------
(* run_agent_loop and the Gemini run_agent on one sequence of model responses *)

\* The responses of the comparison: text blocks and tool calls to the
\* registered tool, with arguments its execute accepts or rejects
PairKinds == { "text", "use_ok", "use_raise" }

PairResponses(left) == UNION { [1..n -> PairKinds] : n \in 0..left }

\* The same response given to the Gemini loop: a text block is a text part, a
\* tool_use of the registered tool is a function_call of the registered tool,
\* with arguments execute accepts, or with none
PairArgs(input) == IF input = <<>> THEN <<>> ELSE [expression |-> Str("2+2")]

PairPart(block) ==
    IF block.type = "text" THEN TextPart(block.text)
    ELSE FunctionCallPart("calculator", PairArgs(block.input))

PairParts(content) == [i \in 1..Len(content) |-> PairPart(content[i])]

\* the k-th response the run of run_agent_loop was given
ResponseOfRun(k) == conversation_history[run.start + 2 * k].content.blocks

InitPair ==
    /\ NoAgent
    /\ OthersOff("gemini")
    /\ gemini = [pc |-> "wait"]

\* one run of run_agent_loop on an Agent with the WeatherTool
PairAnthropicStep ==
    /\ gemini.pc = "wait"
    /\ \/ AgentInit(<<WeatherTool(1)>>)
       \/ \E m \in InitialMessages, n \in 0..MaxIter : pc = "idle" /\ RunAgentLoop(m, n)
       \/ SendMessage
       \/ ReturnSentinel
       \/ \E ks \in PairResponses(MaxBlocks - ModelBlocks(conversation_history)) :
              ModelResponds(ks)
       \/ ReturnAnswer
       \/ ExecTool

\* run_agent is called with the same cap
PairGeminiStart ==
    /\ gemini.pc = "wait"
    /\ pc \in {"returned", "raised"}
    /\ \E q \in GeminiQuestions : gemini' = GeminiRunAgent(q, max_iterations)
    /\ UNCHANGED notGemini

\* the Gemini model returns the response the other run was given at this call
PairGeminiResponds ==
    /\ gemini.pc = "call"
    /\ gemini.calls < modelCalls
    /\ GeminiResponds(PairParts(ResponseOfRun(gemini.calls + 1)))

NextPair ==
    \/ PairAnthropicStep
    \/ PairGeminiStart
    \/ gemini.pc # "wait" /\ GeminiSend
    \/ gemini.pc # "wait" /\ GeminiReturnMax
    \/ PairGeminiResponds

SpecPair == InitPair /\ [][NextPair]_vars

-----------------------------------------------------------------------------
(* agno_tests/workflow/shared_state_workflow.py *)

\* The items a model asks to add: strings of up to two characters over an
\* alphabet with one letter in both cases
ShoppingChars == { "m", "M", "b" }
ShoppingItems == UNION { [1..n -> ShoppingChars] : n \in 0..2 }

\* run_context.session_state before the first call: None or {} (both falsy,
\* both the empty function), the workflow's {"shopping_list": []}, and a
\* state holding some other key only
ShoppingStates == { <<>>, [shopping_list |-> <<>>], [other |-> <<>>] }

\* a membership test on the items as they are spelled
ItemPresent_Exact(item, list) ==
    \E k \in 1..Len(list) : list[k] = item

\* item.lower() in [x.lower() for x in shopping_list]
ItemPresent(item, list) ==
    \E k \in 1..Len(list) : Lower(list[k]) = Lower(item)

\* session_state after the two "if not ..." lines of add_item
WithShoppingList(session_state) ==
    IF "shopping_list" \in DOMAIN session_state THEN session_state
    ELSE [k \in DOMAIN session_state \cup {"shopping_list"} |->
             IF k = "shopping_list" THEN <<>> ELSE session_state[k]]

InitShopping ==
    /\ NoAgent
    /\ OthersOff("shopping")
    /\ \E st \in ShoppingStates :
           shopping = [pc |-> "ready", calls |-> <<>>, session_state |-> st,
                       returned |-> None]

\* add_item(run_context, item)
add_item(item) ==
    /\ shopping.pc = "ready"
    /\ Len(shopping.calls) < MaxAdds
    /\ LET state == WithShoppingList(shopping.session_state)
           list == state["shopping_list"]
       IN  IF ~ItemPresent(item, list)
           THEN shopping' =
                  [shopping EXCEPT
                      !.session_state = [state EXCEPT !["shopping_list"] = Append(list, item)],
                      !.calls = Append(@, item),
                      !.returned = Some(Str("Added '") \o item
                                        \o Str("' to the shopping list."))]
           ELSE shopping' =
                  [shopping EXCEPT
                      !.session_state = state,
                      !.calls = Append(@, item),
                      !.returned = Some(Str("'") \o item
                                        \o Str("' is already in the shopping list."))]
    /\ UNCHANGED notShopping

NextShopping == \E item \in ShoppingItems : add_item(item)

SpecShopping == InitShopping /\ [][NextShopping]_vars

-----------------------------------------------------------------------------
(* googleadk_tests/assistant_agent/agent.py *)

\* str(n) of a natural number, as the f-strings format it
DigitChar(d) ==
    CASE d = 0 -> "0" [] d = 1 -> "1" [] d = 2 -> "2" [] d = 3 -> "3" [] d = 4 -> "4"
      [] d = 5 -> "5" [] d = 6 -> "6" [] d = 7 -> "7" [] d = 8 -> "8" [] OTHER -> "9"

RECURSIVE Decimal(_)
Decimal(n) ==
    IF n < 10 THEN <<DigitChar(n)>>
    ELSE Append(Decimal(n \div 10), DigitChar(n % 10))

\* the keys of tool_context.state the tools use
TotalKey == Str("user:total_interactions")
LastKey == Str("last_interaction")
NameKey == Str("user:name")
PreferenceKey(preference_type) == Str("user:preference_") \o preference_type
PreferenceUpdatedKey(preference_type) ==
    Str("user:preference_") \o preference_type \o Str("_updated")

\* a key formed from the count read before the increment
InteractionKey_BeforeIncrement(current_count) ==
    Str("user:interaction_") \o Decimal(current_count)

\* interaction_key = f"user:interaction_{current_count + 1}"
InteractionKey(current_count) ==
    Str("user:interaction_") \o Decimal(current_count + 1)

\* state.get(key, default)
StateGet(state, key, default) ==
    IF key \in DOMAIN state THEN state[key] ELSE default

\* state[key] = value
StateSet(state, key, value) ==
    [k \in DOMAIN state \cup {key} |-> IF k = key THEN value ELSE state[k]]

\* the arguments the model passes, and the values of datetime.now().isoformat()
InteractionTypes == { Str("question"), Str("feedback") }
InteractionDetails == { Str("d") }
PreferenceTypes == { Str("cuisine") }
PreferenceValues == { Str("thai") }
Timestamps == { Str("T") }

\* the state of a user the assistant has not tracked yet: nothing, or a name
AssistantStates == { <<>>, [k \in {NameKey} |-> Str("Ana")] }

InitAssistant ==
    /\ NoAgent
    /\ OthersOff("assistant")
    /\ \E st \in AssistantStates :
           assistant = [pc |-> "ready", state |-> st, calls |-> 0, returned |-> None,
                        saved |-> FALSE, interaction_type |-> None,
                        details |-> None]

\* update_user_interaction(interaction_type, details, tool_context)
update_user_interaction(interaction_type, details, now) ==
    /\ assistant.pc = "ready"
    /\ assistant.calls < MaxInteractions
    /\ LET current_count == StateGet(assistant.state, TotalKey, 0)
           counted == StateSet(assistant.state, TotalKey, current_count + 1)
           stored == StateSet(counted, InteractionKey(current_count),
                              [type |-> interaction_type, details |-> details,
                               timestamp |-> now])
           last == StateSet(stored, LastKey, interaction_type \o Str(": ") \o details)
       IN  assistant' =
              [assistant EXCEPT
                  !.state = last,
                  !.calls = @ + 1,
                  !.interaction_type = Some(interaction_type),
                  !.details = Some(details),
                  !.returned = Some([status |-> "success",
                                     timestamp |-> now,
                                     interaction_count |-> current_count + 1])]
    /\ UNCHANGED notAssistant

\* save_user_preference(preference_type, value, tool_context), once
save_user_preference(preference_type, value, now) ==
    /\ assistant.pc = "ready"
    /\ ~assistant.saved
    /\ LET valued == StateSet(assistant.state, PreferenceKey(preference_type), value)
           stamped == StateSet(valued, PreferenceUpdatedKey(preference_type), now)
       IN  assistant' =
              [assistant EXCEPT
                  !.state = stamped,
                  !.saved = TRUE,
                  !.returned = Some([status |-> "success", updated_at |-> now])]
    /\ UNCHANGED notAssistant

NextAssistant ==
    \/ \E t \in InteractionTypes, d \in InteractionDetails, now \in Timestamps :
           update_user_interaction(t, d, now)
    \/ \E t \in PreferenceTypes, v \in PreferenceValues, now \in Timestamps :
           save_user_preference(t, v, now)

SpecAssistant == InitAssistant /\ [][NextAssistant]_vars

-----------------------------------------------------------------------------
(* agno_tests/context/ctx_engine/context_enginer_1.py *)

\* the texts given to chunk_text, the empty text among them
ChunkChars == { "a", "b" }
ChunkTexts == UNION { [1..n -> ChunkChars] : n \in 0..MaxText }

\* chunk_size and overlap of a call, chunk_size > overlap >= 0 as in
\* chunk_text(raw_knowledge, chunk_size=200, overlap=30) and the defaults
ChunkSizes == { [chunk_size |-> c, overlap |-> o] : c \in 1..MaxChunk, o \in 0..(MaxChunk - 1) }
ChunkArgs == { a \in ChunkSizes : a.chunk_size > a.overlap }

\* text[start:end]
Slice(text, start, end) ==
    SubSeq(text, start + 1, IF end < Len(text) THEN end ELSE Len(text))

\* a start that advances by the whole chunk
Stride_WholeChunk(chunk_size, overlap) == chunk_size

\* start += chunk_size - overlap
Stride(chunk_size, overlap) == chunk_size - overlap

\* chunk_text(text, chunk_size, overlap) up to the while test
InitChunker ==
    /\ NoAgent
    /\ OthersOff("chunker")
    /\ \E text \in ChunkTexts, a \in ChunkArgs :
           chunker = [pc |-> "loop", text |-> text, start |-> 0,
                      chunk_size |-> a.chunk_size, overlap |-> a.overlap,
                      chunks |-> <<>>,
                      starts |-> <<>>]

\* one pass of the while body
ChunkAppend ==
    /\ chunker.pc = "loop"
    /\ chunker.start < Len(chunker.text)
    /\ LET end == chunker.start + chunker.chunk_size
       IN  chunker' =
              [chunker EXCEPT
                  !.chunks = Append(@, Slice(chunker.text, chunker.start, end)),
                  !.starts = Append(@, chunker.start),
                  !.start = @ + Stride(chunker.chunk_size, chunker.overlap)]
    /\ UNCHANGED notChunker

\* the while test fails: return chunks
ChunkReturn ==
    /\ chunker.pc = "loop"
    /\ chunker.start >= Len(chunker.text)
    /\ chunker' = [chunker EXCEPT !.pc = "returned"]
    /\ UNCHANGED notChunker

NextChunker == ChunkAppend \/ ChunkReturn

\* the call runs on: a pass of the loop that can be taken is taken
SpecChunker == InitChunker /\ [][NextChunker]_vars /\ WF_vars(NextChunker)

-----------------------------------------------------------------------------
(* Claims *)

\* tool_use blocks of history entry i
ToolUsesAt(h, i) ==
    IF h[i].role = "assistant" THEN extract_tool_uses(h[i].content.blocks) ELSE <<>>

\* number of tool_result blocks of history entry j that carry id
ResultsFor(h, j, id) ==
    IF j <= Len(h) /\ h[j].role = "user" /\ IsList(h[j].content)
    THEN Cardinality({ k \in 1..Len(h[j].content.blocks) :
                          /\ h[j].content.blocks[k].type = "tool_result"
                          /\ h[j].content.blocks[k].tool_use_id = id })
    ELSE 0

\* every tool_use of h is answered by exactly one tool_result in the next entry
ToolUsesMatched(h) ==
    \A i \in 1..Len(h) :
        \A u \in 1..Len(ToolUsesAt(h, i)) :
            ResultsFor(h, i + 1, ToolUsesAt(h, i)[u].id) = 1

\* C1: at every model call made by send_message, each tool_use block of the
\* conversation history is matched by exactly one tool_result block with the
\* same call id in the entry right after the assistant entry holding it, over
\* any sequence of runs on one Agent, runs that ended at the iteration cap
\* included.
C1_ToolUsesMatchedAtModelCall ==
    pc = "call" => ToolUsesMatched(conversation_history)

\* C1, the case of the cap: the first model call of a run that follows a run
\* which returned the sentinel is given a history with an unanswered tool_use.
C1_UnansweredAfterCap ==
    /\ pc = "call"
    /\ iteration = 1
    /\ result = Some(Sentinel)
    /\ ~ToolUsesMatched(conversation_history)

\* the call of create_tool_result_content for tool_uses has ended
BatchEnded == tool_uses # <<>> /\ pc # "tools"

\* C2: for every list of tool_use requests extracted from one model response,
\* create_tool_result_content returns a batch of the same length with exactly
\* one tool_result per request, tagged with that request's id, and no result
\* with an id that was not requested.
C2_OneResultPerRequest ==
    BatchEnded =>
        /\ Len(tool_results) = Len(tool_uses)
        /\ \A i \in 1..Len(tool_uses) :
               /\ tool_results[i].type = "tool_result"
               /\ tool_results[i].tool_use_id = tool_uses[i].id

\* the dict a tool_result block carries
ResultDict(block) == block.content[2]

\* C5: when the model requests a tool name that is not in tool_map, the
\* tool_result for that call id carries a structured error, run_agent_loop
\* does not raise, and the loop goes on to the next model call with the batch.
C5_UnknownToolReported ==
    \A i \in 1..Len(tool_uses) :
        \* request i names no registered tool and the for loop has dealt with it
        (/\ tool_uses[i].name \notin DOMAIN tool_map
         /\ i <= Len(tool_results) + 1
         /\ (pc = "tools" => i <= Len(tool_results)))
        => /\ pc = "raised" => exception = Some("APIError")
           /\ i <= Len(tool_results)
           /\ tool_results[i].tool_use_id = tool_uses[i].id
           /\ "error" \in DOMAIN ResultDict(tool_results[i])

\* C6: register_tools given two tools with the same declared name fails and
\* produces no registry, so that no Agent holds a schema list whose names
\* differ from the keys of its tool_map.
C6_DuplicateNamesRejected ==
    /\ \A i, j \in 1..Len(tool_schemas) :
           tool_schemas[i].name = tool_schemas[j].name => i = j
    /\ Len(tool_schemas) = Cardinality(DOMAIN tool_map)

\* some tool execution of the current batch raised (and was caught)
ToolRaisedInBatch == \E k \in 1..Len(execLog) : execLog[k].raised

\* C9: a failure of one tool execution never ends the run: when one tool of a
\* batch raises, every later request of the batch is still executed and the
\* run ends only with a model answer or at the iteration cap (a later failure
\* of the model call itself, which is meant to end the run, set aside).
C9_ToolFailureNeverEndsRun ==
    (ToolRaisedInBatch /\ pc # "tools") =>
        /\ Len(execLog) = Len(tool_uses)
        /\ (pc = "raised" => exception = Some("APIError"))

\* a run is in progress or has ended
InRun == pc \in {"loop", "call", "answer", "tools", "returned", "raised"}

HasToolUse(content) == \E i \in 1..Len(content) : content[i].type = "tool_use"

\* C3: for every max_iterations = N and a model whose every response holds a
\* tool_use block, one invocation of run_agent_loop makes at most N model
\* calls, and what it then returns is the max-iterations sentinel, not a model
\* answer.  (A run with no response at all, N = 0, is the same case.)
C3_IterationCap ==
    /\ InRun => modelCalls <= max_iterations
    /\ (pc = "returned" /\ (response = None \/ HasToolUse(response[1])))
       => /\ result = Some(Sentinel)
          /\ modelCalls = max_iterations

\* C3's case: a run with the largest cap, every response of which asked for a
\* tool, has returned the sentinel after exactly that many model calls.
C3_CapReached ==
    /\ pc = "returned"
    /\ max_iterations = MaxIter
    /\ modelCalls = MaxIter
    /\ HasToolUse(response[1])
    /\ result = Some(Sentinel)

\* C4: when a tool's execute raises for the supplied arguments,
\* execute_tool_safely does not let the exception out: what it returns, and
\* what the tool_result then carries, is a dict with the single field 'error',
\* a message string.
C4_ToolExceptionBecomesError ==
    /\ \A k \in 1..Len(execLog) :
           execLog[k].raised =>
               /\ DOMAIN ResultDict(tool_results[k]) = {"error"}
               /\ ResultDict(tool_results[k]).error[1] = "Tool execution failed: "
    /\ pc = "raised" => exception \in {Some("APIError"), Some("KeyError")}

\* C4's case: a tool execution of the batch has raised and the run goes on
C4_ToolRaisedAndRunGoesOn ==
    /\ ToolRaisedInBatch
    /\ pc = "call"

\* C7: conversation_history is append-only: over send_message and
\* run_agent_loop steps (runs that succeed, stop at the cap or are aborted by
\* a failure of the model call) its length never decreases and every entry
\* already present keeps its role and content.
C7_HistoryAppendOnly ==
    [][ /\ Len(conversation_history') >= Len(conversation_history)
        /\ \A i \in 1..Len(conversation_history) :
               /\ i <= Len(conversation_history')
               /\ conversation_history'[i].role = conversation_history[i].role
               /\ conversation_history'[i].content = conversation_history[i].content
      ]_vars

\* C7's case: a history of four entries or more, after a run that was aborted
\* by a failure of the model call
C7_LongHistoryAfterAbort ==
    /\ Len(conversation_history) >= 4
    /\ pc = "raised"
    /\ exception = Some("APIError")

\* C8: if the model call raises during an iteration of run_agent_loop, the
\* exception reaches the caller: the step that gets no response ends the run
\* with the exception and without a returned value, and an ended run makes no
\* further model call and executes no further tool (the only step that leaves
\* it is the caller starting a new run).
C8_ModelFailureAborts ==
    [][ /\ (pc = "call" /\ conversation_history' = conversation_history)
           => /\ pc' = "raised"
              /\ exception' = Some("APIError")
              /\ result' = result
              /\ execLog' = execLog
        /\ pc = "raised"
           => /\ pc' = "loop" /\ iteration' = 0 /\ modelCalls' = 0
              /\ result' = result
              /\ conversation_history' = conversation_history
      ]_vars

\* C8's case: the model call of the second iteration, the one that carries a
\* tool-result batch, has raised
C8_SecondCallFailed ==
    /\ pc = "raised"
    /\ exception = Some("APIError")
    /\ iteration = 2
    /\ IsList(current_message)

IsTextBlock(block) == block.type = "text"

\* the texts of parts from index i on, with a newline between neighbours
RECURSIVE NewlineSeparated(_, _)
NewlineSeparated(parts, i) ==
    IF i > Len(parts) THEN <<>>
    ELSE parts[i].text \o (IF i < Len(parts) THEN Str("\n") ELSE <<>>)
         \o NewlineSeparated(parts, i + 1)

\* ids of the tool_use blocks of content, in order
ToolUseIds(content) ==
    LET uses == SelectSeq(content, LAMBDA b : b.type = "tool_use")
    IN  [i \in 1..Len(uses) |-> uses[i].id]

ExecutedIds == [k \in 1..Len(execLog) |-> execLog[k].id]

AnswerReturned ==
    pc = "returned" /\ response # None /\ ~HasToolUse(response[1])

\* C11: no run that ends with a model-authored answer returns a value equal
\* to the max-iterations sentinel.
C11_AnswerNeverEqualsSentinel ==
    AnswerReturned => result # Some(Sentinel)

\* C11: an answer-run has returned text that is not the sentinel
C11_OrdinaryAnswer ==
    AnswerReturned /\ result = Some(Str("It is sunny."))

\* The run has ended: run_agent_loop returned or an exception left it
RunEnded == pc \in {"returned", "raised"}

\* C12: every run of run_agent_loop eventually ends, whatever the model
\* answers and for every max_iterations, given that each model call and each
\* tool call returns or raises.
C12_RunEnds ==
    (pc = "loop") ~> RunEnded

\* C12: a run has ended at the cap after a full round of tool executions
C12_EndedAfterToolRounds ==
    /\ pc = "returned"
    /\ max_iterations = MaxIter
    /\ modelCalls = MaxIter
    /\ run.batches = MaxIter
    /\ result = Some(Sentinel)

\* the tool_result batch entry msg answers the tool_use blocks of the assistant
\* entry before it: one tool_result per tool_use, same ids, same order
BatchAnswers(msg, before) ==
    /\ msg.role = "user"
    /\ IsList(msg.content)
    /\ before.role = "assistant"
    /\ Len(msg.content.blocks) = Len(ToolUseIds(before.content.blocks))
    /\ \A i \in 1..Len(msg.content.blocks) :
           /\ msg.content.blocks[i].type = "tool_result"
           /\ msg.content.blocks[i].tool_use_id = ToolUseIds(before.content.blocks)[i]

\* C13: a run that ends with a model answer after k model calls has appended
\* exactly 2k entries: the user's text, then alternately an assistant message
\* and the user message with the tool_result batch for it, the last entry
\* being the assistant message without tool_use; k-1 batches were executed,
\* and with k = 2 and one tool_use that is 1 tool execution and 4 entries.
C13_AnswerRunAppends2k ==
    AnswerReturned =>
        LET h == conversation_history
            s == run.start
            k == modelCalls
        IN  /\ k >= 1
            /\ Len(h) = s + 2 * k
            /\ run.batches = k - 1
            /\ h[s + 1] = [content |-> [str |-> run.initial], role |-> "user"]
            /\ \A j \in 1..k :
                   /\ h[s + 2 * j].role = "assistant"
                   /\ IsList(h[s + 2 * j].content)
                   /\ HasToolUse(h[s + 2 * j].content.blocks) <=> (j < k)
            /\ \A j \in 2..k : BatchAnswers(h[s + 2 * j - 1], h[s + 2 * j - 2])
            /\ h[Len(h)].content.blocks = response[1]
            /\ (k = 2 /\ Len(ToolUseIds(h[s + 2].content.blocks)) = 1)
                   => (run.execs = 1 /\ Len(h) - s = 4)

\* C13: the Tokyo scenario in a later run of the Agent: get_weather(Tokyo) was
\* requested and executed, and the second response was the answer
C13_TokyoScenario ==
    /\ AnswerReturned
    /\ run.start > 0
    /\ modelCalls = 2
    /\ run.execs = 1
    /\ Len(conversation_history) = run.start + 4
    /\ conversation_history[run.start + 2].content.blocks
           = <<ToolUseBlock(conversation_history[run.start + 2].content.blocks[1].id,
                            "get_weather", [city |-> Tokyo])>>
    /\ result = Some(Str("It is sunny."))

\* the city arguments that spell one of the four cities of the backing data,
\* in any case
KnownSpellings ==
    { <<"T", "o", "k", "y", "o">>,
      <<"t", "o", "k", "y", "o">>,
      <<"T", "O", "K", "Y", "O">>,
      <<"t", "O", "k", "Y", "o">>,
      <<"P", "a", "r", "i", "s">>,
      <<"L", "O", "N", "D", "O", "N">>,
      <<"N", "e", "w", " ", "Y", "o", "r", "k">>,
      <<"n", "e", "w", " ", "y", "o", "r", "k">> }

\* C14: WeatherTool.execute does not raise for a string city; its result has
\* 'temperature' and 'condition' exactly when the city spells one of the four
\* cities of the backing data in any case, and otherwise has 'error' and no
\* 'temperature'; in both cases the tool_result is built and the loop goes
\* back to its while test with the batch as the next message.
C14_WeatherExecuteTotal ==
    /\ weather.pc # "raised"
    /\ weather.pc \in {"executed", "built", "loop"}
       => /\ ~weather.outcome.raised
          /\ IF weather.tool_input.city \in KnownSpellings
             THEN /\ {"temperature", "condition"} \subseteq DOMAIN weather.outcome.value
                  /\ "error" \notin DOMAIN weather.outcome.value
             ELSE /\ "error" \in DOMAIN weather.outcome.value
                  /\ "temperature" \notin DOMAIN weather.outcome.value
    /\ weather.pc = "loop"
       => weather.current_message
             = ListContent(<<ToolResultBlock(1, json_dumps(weather.outcome.value))>>)

\* C14: the Berlin request was answered by an error result and the loop went on
C14_BerlinGoesOn ==
    /\ weather.pc = "loop"
    /\ weather.tool_input.city = <<"B", "e", "r", "l", "i", "n">>
    /\ "error" \in DOMAIN weather.outcome.value

\* the last line entered was read and acted on
LineEntered(line) ==
    chat.pc # "off" /\ chat.lines > 0 /\ chat.line = line /\ chat.user_input = Strip(line)

\* some execute_turn call was given text
TurnRunWith(text) ==
    \E i \in 1..Len(chat.turns) : chat.turns[i] = text

\* C15: in the interactive loop of debug_context.py, entering the line
\* '/exit' ends the loop and no agent turn is run with it.
C15_SlashExitEndsLoop ==
    LineEntered(<<"/", "e", "x", "i", "t">>)
        => (chat.pc = "done" /\ ~TurnRunWith(<<"/", "e", "x", "i", "t">>))

\* C15: the line 'exit' has ended the loop without a turn
C15_ExitEndsLoop ==
    /\ LineEntered(<<"e", "x", "i", "t">>)
    /\ chat.pc = "done"
    /\ chat.turns = <<>>

\* number of tool_result messages the current run has added to the history
ToolResultMessagesAdded ==
    Cardinality({ i \in (run.start + 1)..Len(conversation_history) :
                     /\ conversation_history[i].role = "user"
                     /\ IsList(conversation_history[i].content) })

\* C16: at the end of any run, a run that stops at the iteration cap included,
\* the number of tool_result messages the run added to the history equals the
\* number of tool batches it executed.
C16_EveryBatchAppended ==
    RunEnded => ToolResultMessagesAdded = run.batches

\* C16: a run has returned at the cap with its last batch built and in no
\* history entry
C16_BatchDroppedAtCap ==
    /\ pc = "returned"
    /\ result = Some(Sentinel)
    /\ run.batches = ToolResultMessagesAdded + 1
    /\ current_message = ListContent(tool_results)
    /\ \A i \in 1..Len(conversation_history) :
           conversation_history[i].content # current_message

\* C17: the tool_use blocks of one response are executed one at a time in
\* the order of the blocks, each execution adding its result before the next
\* begins, and all are done before the next model call; the message sent in
\* that call is one user message holding exactly their results in the order
\* of the requests.
C17_ToolsInOrderThenOneBatch ==
    /\ pc = "tools"
       => /\ Len(tool_results) = Len(execLog)
          /\ Len(execLog) < Len(ToolUseIds(response[1]))
          /\ \A i \in 1..Len(execLog) :
                 /\ execLog[i].id = ToolUseIds(response[1])[i]
                 /\ tool_results[i].tool_use_id = execLog[i].id
    /\ (pc = "call" /\ iteration > 1)
       => LET h == conversation_history
              n == Len(conversation_history)
          IN  /\ h[n - 1].role = "assistant"
              /\ h[n - 1].content.blocks = response[1]
              /\ ExecutedIds = ToolUseIds(response[1])
              /\ h[n] = [content |-> [blocks |-> tool_results], role |-> "user"]
              /\ BatchAnswers(h[n], h[n - 1])
              /\ api_messages # <<>>
              /\ api_messages[Len(api_messages)] = h[n]

\* C17: the second model call of a run is under way with the results of two
\* tool requests, one of which raised inside its tool
C17_TwoResultsSent ==
    /\ pc = "call"
    /\ iteration = 2
    /\ Len(tool_results) = 2
    /\ execLog[1].raised # execLog[2].raised

\* the first entry the current run added to the history is the user's
\* initial message
InitialMessageInHistory ==
    /\ Len(conversation_history) > run.start
    /\ conversation_history[run.start + 1]
           = [content |-> [str |-> run.initial], role |-> "user"]

\* C18: every run of run_agent_loop has appended the user's initial message
\* as a user entry by the time it ends, a run with max_iterations = 0 that
\* returns the sentinel at once included.
C18_InitialMessageAlwaysAppended ==
    RunEnded => InitialMessageInHistory

\* C18: a run with max_iterations >= 1 has ended at the cap and its initial
\* message is in the history
C18_AppendedBeforeCap ==
    /\ pc = "returned"
    /\ result = Some(Sentinel)
    /\ max_iterations >= 1
    /\ modelCalls = max_iterations
    /\ InitialMessageInHistory

\* C19: each model call of send_message is given every entry ever appended
\* to the Agent's history, in the order of appending, from the first entry
\* of the Agent's lifetime up to and including the message just appended.
C19_ModelCallGetsWholeHistory ==
    pc = "call"
        => /\ api_messages = appendLog
           /\ Len(api_messages) = Len(conversation_history)
           /\ api_messages # <<>>
           /\ api_messages[Len(api_messages)]
                  = [content |-> current_message, role |-> "user"]

\* C19: a model call of a later run is given the entries of an earlier run
C19_LaterRunCall ==
    /\ pc = "call"
    /\ run.start >= 2
    /\ iteration = 2
    /\ Len(api_messages) = run.start + 3
    /\ api_messages[1].content = [str |-> run.initial]

\* the model calls the current run has made
CallsOfRun == sends - run.sends0

\* C20: no step after construction changes tool_map, tool_schemas, model or
\* system_prompt; the iteration counter starts at 0 in every run, so a run is
\* stopped by the cap exactly when it has itself made max_iterations model
\* calls, however many calls earlier runs on the same Agent made.
C20_RunsChangeOnlyHistory ==
    [][ /\ pc # "new"
           => /\ tool_map' = tool_map
              /\ tool_schemas' = tool_schemas
              /\ model' = model
              /\ system_prompt' = system_prompt
        /\ (pc \in {"idle", "returned", "raised"} /\ pc' = "loop")
           => iteration' = 0
        /\ pc = "loop"
           => /\ iteration = CallsOfRun
              /\ (pc' = "call") <=> (CallsOfRun < max_iterations)
              /\ (pc' = "returned") <=> (CallsOfRun >= max_iterations)
      ]_vars

\* C20: a later run on an Agent whose earlier runs made model calls has made
\* max_iterations calls of its own, with the custom system prompt in place
C20_LaterRunFullAllowance ==
    /\ pc = "call"
    /\ run.sends0 >= 1
    /\ max_iterations = MaxIter
    /\ CallsOfRun = MaxIter
    /\ system_prompt = Some(WeatherSystemPrompt)
    /\ model = Some("claude-sonnet-4-20250514")
    /\ DOMAIN tool_map = {"get_weather"}

\* the keys of the session determine_next_agent was given ({} for None)
DeterminedKeys ==
    IF workflow.current_session = None THEN {}
    ELSE DOMAIN workflow.current_session[1].state

\* C21: determine_next_agent reports "complete" with no agent exactly when
\* final_answer is present; otherwise agent3 when note_2 is present; otherwise
\* agent2 when note_1 is present; otherwise agent1, also for a session that
\* could not be loaded.
C21_PriorityOfKeys ==
    workflow.pc = "determined"
        => LET keys == DeterminedKeys
               next == workflow.next
           IN  /\ "final_answer" \in keys
                      => (next.status = "complete" /\ next.agent = <<>>)
               /\ ("note_2" \in keys /\ "final_answer" \notin keys)
                      => (next.status = "agent3" /\ next.agent = <<"agent3">>)
               /\ ("note_1" \in keys /\ {"note_2", "final_answer"} \cap keys = {})
                      => (next.status = "agent2" /\ next.agent = <<"agent2">>)
               /\ {"note_1", "note_2", "final_answer"} \cap keys = {}
                      => (next.status = "agent1" /\ next.agent = <<"agent1">>)

\* C21: a session holding all three keys was reported complete
C21_AllKeysComplete ==
    /\ workflow.pc = "determined"
    /\ DeterminedKeys = {"note_1", "note_2", "final_answer"}
    /\ workflow.next.status = "complete"

\* the agents run so far are agent1, agent2, agent3 in that order, each at
\* most once, and run_turn returned False after the first two and True since
WorkflowInOrder ==
    /\ Len(workflow.ran) <= 3
    /\ \A i \in 1..Len(workflow.ran) :
           workflow.ran[i] = <<"agent1", "agent2", "agent3">>[i]
    /\ Len(workflow.returns) >= Len(workflow.ran)
    /\ \A i \in 1..Len(workflow.returns) : workflow.returns[i] = (i >= 3)

\* C22: from a session with empty state, as long as every agent run wrote its
\* output_key, successive run_turn calls run agent1, agent2, agent3 once each
\* in that order, returning False, False, True; every later run_turn runs no
\* agent, leaves the sessions as they are and returns True.
C22_AgentsInOrderOnce ==
    [][ (workflow.pc # "off" /\ workflow'.wrote)
            => /\ WorkflowInOrder'
               /\ (workflow.pc = "turn" /\ Len(workflow.ran) = 3)
                      => /\ workflow'.ran = workflow.ran
                         /\ workflow'.sessions = workflow.sessions
                         /\ workflow'.returns = Append(workflow.returns, TRUE)
      ]_vars

\* C22: the three agents have run and two later turns found the workflow
\* complete
C22_CompleteAndAskedAgain ==
    /\ workflow.pc = "shell"
    /\ workflow.wrote
    /\ workflow.ran = <<"agent1", "agent2", "agent3">>
    /\ workflow.returns = <<FALSE, FALSE, TRUE, TRUE, TRUE>>

\* C23: over the executions of the script against one database, run one
\* after another, there is at most one session of (APP_NAME, USER_ID):
\* get_or_create_session creates one only when there is none, otherwise it
\* continues the existing one and leaves every session as it is.
C23_OneSessionPerUser ==
    [][ workflow.pc # "off"
            => /\ Len(workflow'.sessions) <= 1
               /\ workflow'.created <= 1
               /\ (workflow.pc = "main" /\ Len(workflow.sessions) > 0)
                      => /\ workflow'.sessions = workflow.sessions
                         /\ workflow'.session_id = workflow.sessions[1].id
                         /\ workflow'.created = workflow.created
               /\ (workflow.pc = "main" /\ Len(workflow.sessions) = 0)
                      => /\ Len(workflow'.sessions) = 1
                         /\ workflow'.sessions[1].state = <<>>
                         /\ workflow'.session_id = workflow'.sessions[1].id
      ]_vars

\* C23: a third execution has continued the session of the first, whose
\* state holds what the earlier turns stored
C23_ThirdExecutionContinues ==
    /\ workflow.pc = "turn"
    /\ workflow.execs = 3
    /\ workflow.created = 1
    /\ Len(workflow.sessions) = 1
    /\ workflow.session_id = workflow.sessions[1].id
    /\ DOMAIN workflow.sessions[1].state = {"note_1", "note_2"}

\* the last run_turn call returned True
ReturnedComplete ==
    /\ workflow.pc = "shell"
    /\ workflow.returns # <<>>
    /\ workflow.returns[Len(workflow.returns)]

\* C24: whenever run_turn has returned True the session state contains
\* final_answer (so the next determine_next_agent reports "complete"), also
\* when the agent run gave no final response or wrote nothing.
C24_CompleteMeansFinalAnswer ==
    ReturnedComplete
        => /\ "final_answer" \in DOMAIN workflow.sessions[1].state
           /\ determine_next_agent(get_session(workflow.sessions, workflow.session_id)).status
                  = "complete"

\* C24: run_turn returned True after agent3 stored its answer
C24_CompleteWithAnswer ==
    /\ ReturnedComplete
    /\ workflow.ran = <<"agent1", "agent2", "agent3">>
    /\ workflow.wrote
    /\ "final_answer" \in DOMAIN workflow.sessions[1].state

\* the roles of h alternate user, assistant, user, ... from a user entry to a
\* user entry
RolesAlternate(h) ==
    /\ Len(h) % 2 = 1
    /\ \A i \in 1..Len(h) :
           h[i].role = IF i % 2 = 1 THEN "user" ELSE "assistant"

\* C25: at every model call of send_message, over any sequence of runs on
\* one Agent, runs aborted by a model-call failure and retried by the caller
\* included, the history given to the model alternates user, assistant,
\* user, ... and starts and ends with a user entry.
C25_RolesAlternateAtModelCall ==
    pc = "call" => RolesAlternate(api_messages)

\* C25: the model call of a run that follows a completed run is given an
\* alternating history
C25_AlternatingInLaterRun ==
    /\ pc = "call"
    /\ run.start >= 2
    /\ exception = None
    /\ RolesAlternate(api_messages)

\* C26: in the Gemini example, chat leaves the history as it was when the
\* model call raises; when chat returns it has appended exactly two entries,
\* the message sent and then the model's reply; the contents sent to the
\* model are the history before the call followed by the new message.
C26_ChatHistory ==
    [][ (gemini.pc = "call")
            => /\ gemini.contents
                      = Append(gemini.history, GeminiMessage(gemini.user_input))
               /\ gemini'.chat_outcome = "model_raised"
                      => gemini'.history = gemini.history
               /\ gemini'.chat_outcome = "returned"
                      => /\ Len(gemini'.history) = Len(gemini.history) + 2
                         /\ SubSeq(gemini'.history, 1, Len(gemini.history)) = gemini.history
                         /\ gemini'.history[Len(gemini.history) + 1]
                                = gemini.contents[Len(gemini.contents)]
                         /\ gemini'.history[Len(gemini.history) + 2].role = "model"
      ]_vars

\* C26: the second model call of a run raised and the history holds the two
\* entries of the first chat only
C26_SecondCallRaised ==
    /\ gemini.pc = "raised"
    /\ gemini.chat_outcome = "model_raised"
    /\ gemini.calls = 2
    /\ Len(gemini.history) = 2
    /\ Len(gemini.contents) = 3

\* how the run of run_agent_loop ended
AnthropicEnd ==
    IF pc = "raised" THEN "raised"
    ELSE IF AnswerReturned THEN "answer"
    ELSE "cap"

\* how the run of run_agent ended
GeminiEnd ==
    IF gemini.pc = "raised" THEN "raised"
    ELSE IF gemini.i >= gemini.max_turns
            /\ gemini.result = Some(PyStr(Str("Max iterations reached")))
    THEN "cap"
    ELSE "answer"

\* both loops have ended
BothEnded ==
    /\ gemini.pc \in {"returned", "raised"}
    /\ pc \in {"returned", "raised"}

\* C27: given the same sequence of model responses (text, or tool calls to
\* the registered tool) and the same cap, run_agent and run_agent_loop make
\* the same number of model calls and the same tool executions in the same
\* order, and end the same way.
C27_LoopsAgree ==
    /\ (gemini.pc = "call") => (gemini.calls < modelCalls)
    /\ BothEnded
       => /\ gemini.calls = modelCalls
          /\ Len(gemini.executed) = Len(run.executed)
          /\ \A k \in 1..Len(run.executed) :
                 DOMAIN gemini.executed[k] = DOMAIN PairArgs(run.executed[k])
          /\ GeminiEnd = AnthropicEnd

\* C27: both loops ended with an answer after one round of one tool call
C27_BothAnswerAfterTool ==
    /\ BothEnded
    /\ AnthropicEnd = "answer"
    /\ GeminiEnd = "answer"
    /\ modelCalls = 2
    /\ gemini.calls = 2
    /\ Len(run.executed) = 1
    /\ Len(gemini.executed) = 1

\* the shopping list of the session state, empty while the key is absent
ShoppingList ==
    IF shopping.pc = "off" \/ "shopping_list" \notin DOMAIN shopping.session_state
    THEN <<>>
    ELSE shopping.session_state["shopping_list"]

\* the calls that gave an item for the first time in any letter case
FirstMentions(calls) ==
    SelectSeq([i \in 1..Len(calls) |-> [item |-> calls[i], at |-> i]],
              LAMBDA c : \A j \in 1..(c.at - 1) : Lower(calls[j]) # Lower(c.item))

\* C28: after any sequence of add_item calls on a state that began with an
\* empty shopping list, no two items of the list are equal under
\* case-insensitive comparison, and the list is the items of the calls that
\* named an item for the first time in any letter case, in the order of those
\* calls and spelled as given there; so a call with an item already present in
\* any letter case left the list as it was.
C28_ShoppingListDistinct ==
    LET list == ShoppingList
        first == FirstMentions(IF shopping.pc = "off" THEN <<>> ELSE shopping.calls)
    IN  /\ \A i, j \in 1..Len(list) : (i # j) => (Lower(list[i]) # Lower(list[j]))
        /\ Len(list) = Len(first)
        /\ \A k \in 1..Len(list) : list[k] = first[k].item

\* an item was added, then given again in another letter case, then a new
\* item was added
C28_RepeatedInOtherCase ==
    /\ shopping.pc = "ready"
    /\ Len(shopping.calls) = 3
    /\ shopping.calls[1] # shopping.calls[2]
    /\ Lower(shopping.calls[1]) = Lower(shopping.calls[2])
    /\ Len(ShoppingList) = 2
    /\ ShoppingList[1] = shopping.calls[1]
    /\ ShoppingList[2] = shopping.calls[3]

\* the keys of the state that begin with "user:interaction_"
InteractionKeys(state) ==
    { key \in DOMAIN state : Len(key) > 0 /\ key[1] = "user:interaction_" }

\* after n calls the counter is n and the interaction keys are those of 1..n
InteractionsCounted(a) ==
    /\ StateGet(a.state, TotalKey, 0) = a.calls
    /\ (a.calls > 0) => (TotalKey \in DOMAIN a.state)
    /\ InteractionKeys(a.state) = { Str("user:interaction_") \o Decimal(k) : k \in 1..a.calls }
    /\ Cardinality(InteractionKeys(a.state)) = a.calls

\* C29: after n sequential update_user_interaction calls on a state without
\* 'user:total_interactions', the counter equals n and the keys
\* 'user:interaction_k' of the state are exactly those with k in 1..n; each
\* call raises the counter by exactly 1 and sets 'last_interaction' to the
\* type and the details of that call.
C29_InteractionsCounted ==
    [][ (assistant.pc = "ready" /\ assistant'.pc = "ready")
        => /\ InteractionsCounted(assistant')
           /\ (assistant'.calls # assistant.calls)
              => /\ assistant'.calls = assistant.calls + 1
                 /\ StateGet(assistant'.state, TotalKey, 0)
                       = StateGet(assistant.state, TotalKey, 0) + 1
                 /\ LastKey \in DOMAIN assistant'.state
                 /\ assistant'.state[LastKey]
                       = assistant'.interaction_type[1] \o Str(": ") \o assistant'.details[1]
           /\ (assistant'.calls = assistant.calls)
              => /\ StateGet(assistant'.state, TotalKey, 0)
                       = StateGet(assistant.state, TotalKey, 0)
                 /\ InteractionKeys(assistant'.state) = InteractionKeys(assistant.state)
      ]_vars

\* ten calls were made, a preference saved in between: the counter is 10 and
\* the key of the tenth interaction has two digits
C29_TenInteractions ==
    /\ assistant.pc = "ready"
    /\ assistant.calls = 10
    /\ assistant.saved
    /\ assistant.state[TotalKey] = 10
    /\ <<"user:interaction_", "1", "0">> \in DOMAIN assistant.state
    /\ <<"user:interaction_", "1">> \in DOMAIN assistant.state

\* the chunks appended so far: where they start, what they hold, and, once
\* chunk_text has returned, that they cover the text
ChunksWellFormed ==
    (chunker.pc # "off") =>
    LET chunks == chunker.chunks
        starts == chunker.starts
        text == chunker.text
    IN  /\ Len(starts) = Len(chunks)
        /\ \A k \in 1..Len(chunks) :
              /\ starts[k] = (k - 1) * (chunker.chunk_size - chunker.overlap)
              /\ Len(chunks[k]) >= 1
              /\ Len(chunks[k]) <= chunker.chunk_size
              /\ starts[k] + Len(chunks[k]) <= Len(text)
              /\ \A i \in 1..Len(chunks[k]) : chunks[k][i] = text[starts[k] + i]
        /\ (chunker.pc = "returned") =>
              /\ \A pos \in 1..Len(text) :
                     \E k \in 1..Len(chunks) :
                        starts[k] < pos /\ pos <= starts[k] + Len(chunks[k])
              /\ (text = <<>>) => (chunks = <<>>)

\* C30: for every text and every chunk_size > overlap >= 0, chunk_text
\* returns; each chunk after the first starts chunk_size - overlap characters
\* after the one before, every chunk is a non-empty piece of the text of at
\* most chunk_size characters, every position of the text lies in a chunk,
\* and an empty text gives no chunks.
C30_ChunkTextCovers ==
    /\ []ChunksWellFormed
    /\ <>(chunker.pc = "returned")

\* a call with an overlap that returned three or more chunks, the last one
\* shorter than chunk_size
C30_ReturnedOverlappingChunks ==
    /\ chunker.pc = "returned"
    /\ chunker.overlap > 0
    /\ Len(chunker.chunks) >= 3
    /\ Len(chunker.chunks[Len(chunker.chunks)]) < chunker.chunk_size

====
